---- MODULE Spec2Model ----
(***************************************************************************)
(* The MLT XML writer of opentimelineio_contrib/adapters/mlt_xml.py as a   *)
(* state machine.  The module-level collections of the adapter (root,      *)
(* producers, playlists, transitions) are the persistent state; one call   *)
(* of write_to_string is a walk over the input: the background track, then *)
(* one step per track, per item and per time effect, then the emission of  *)
(* the document.  XML elements are records [tag, attrib, text, children];  *)
(* attribute values that the code formats with str() of a number are kept  *)
(* as numbers, identifiers are built as the strings the code builds.       *)
(***************************************************************************)
EXTENDS Integers, Sequences, FiniteSets, TLC

VARIABLES root, producers, producer_order, playlists, transitions,
          pc, input, tracks, frames, pending, hist

vars == <<root, producers, producer_order, playlists, transitions,
          pc, input, tracks, frames, pending, hist>>

-----------------------------------------------------------------------------
(* Bounds of the model *)

MaxCalls == 2

MaxOffset == 2

MaxScalar == 3

MaxStart == 1

Offsets == 0..MaxOffset
Scalars == 2..MaxScalar
Starts == 0..MaxStart
ClipDur == 2 * MaxOffset + 2

-----------------------------------------------------------------------------
(* Small helpers *)

Max(a, b) == IF a >= b THEN a ELSE b
Min(a, b) == IF a <= b THEN a ELSE b

Range(s) == {s[i] : i \in DOMAIN s}

RECURSIVE SumSeq(_)
SumSeq(s) == IF s = <<>> THEN 0 ELSE Head(s) + SumSeq(Tail(s))

RECURSIVE MaxSeq(_)
MaxSeq(s) == IF s = <<>> THEN 0 ELSE Max(Head(s), MaxSeq(Tail(s)))

EmptyDict == [k \in {} |-> 0]

\* dict[key] = value
Put(dict, key, value) == [k \in DOMAIN dict \cup {key} |->
                            IF k = key THEN value ELSE dict[k]]

\* list.insert(index, x) of Python, index counted from 0, negative from the end
Insert(seq, index, x) ==
    LET n == Len(seq)
        i == IF index < 0 THEN Max(index + n, 0) ELSE Min(index, n)
    IN SubSeq(seq, 1, i) \o <<x>> \o SubSeq(seq, i + 1, n)

-----------------------------------------------------------------------------
(* The input model: OTIO objects as records of one shape *)

MediaReference(kind, name, target_url) ==
    [kind |-> kind, name |-> name, target_url |-> target_url,
     frame_zero_padding |-> 4, start_frame |-> 1]

NoMedia == MediaReference("MissingReference", "", "")

Obj(schema, name) ==
    [schema |-> schema, name |-> name, kind |-> "Video", media |-> NoMedia,
     start |-> 0, dur |-> 0, in_offset |-> 0, out_offset |-> 0,
     effects |-> <<>>, children |-> <<>>]

Clip(name, media, start, dur) ==
    [Obj("Clip", name) EXCEPT !.media = media, !.start = start, !.dur = dur]

Gap(dur) == [Obj("Gap", "") EXCEPT !.dur = dur]

Transition(i, o) == [Obj("Transition", "") EXCEPT !.in_offset = i, !.out_offset = o]

Stack(name, children) == [Obj("Stack", name) EXCEPT !.children = children]

Track(name, kind, children) ==
    [Obj("Track", name) EXCEPT !.kind = kind, !.children = children]

Timeline(trks) == [Obj("Timeline", "") EXCEPT !.children = trks]

LinearTimeWarp(k) == [effect_name |-> "LinearTimeWarp", time_scalar |-> k, time_effect |-> TRUE]
FreezeFrame == [effect_name |-> "FreezeFrame", time_scalar |-> 0, time_effect |-> TRUE]
OtherEffect == [effect_name |-> "Blur", time_scalar |-> 0, time_effect |-> FALSE]

WithEffects(item, effects) == [item EXCEPT !.effects = effects]

-----------------------------------------------------------------------------
(* The OTIO library calls the adapter makes: durations and the expansion of *)
(* transitions (otio.algorithms.track_with_expanded_transitions)            *)

RECURSIVE Duration(_)
Duration(o) ==
    CASE o.schema \in {"Clip", "Gap"} -> o.dur
      [] o.schema = "Transition" -> o.in_offset + o.out_offset
      [] o.schema = "Track" ->
            SumSeq([i \in DOMAIN o.children |->
                      IF o.children[i].schema = "Transition" THEN 0
                      ELSE Duration(o.children[i])])
      [] OTHER -> MaxSeq([i \in DOMAIN o.children |-> Duration(o.children[i])])

\* trimmed_range() of an item: its source range, or for a Stack its available range
TrimmedStart(o) == IF o.schema \in {"Clip", "Gap"} THEN o.start ELSE 0

IsTransition(children, i) ==
    i \in DOMAIN children /\ children[i].schema = "Transition"

\* An item next to transitions, trimmed by the part each transition takes from it
TrimFromTransitions(children, i) ==
    LET thing == children[i]
        pre == IF IsTransition(children, i - 1) THEN children[i - 1].out_offset ELSE 0
        post == IF IsTransition(children, i + 1) THEN children[i + 1].in_offset ELSE 0
    IN [thing EXCEPT !.start = TrimmedStart(thing) + pre,
                     !.dur = Duration(thing) - pre - post]

\* The triple (leading item, Transition, trailing item) of a transition: both legs
\* span the whole transition; a missing neighbour is a Gap of the offset's length
ExpandTransition(children, i) ==
    LET t == children[i]
        d == t.in_offset + t.out_offset
        prev == IF i = 1 THEN Gap(t.in_offset) ELSE children[i - 1]
        next == IF i = Len(children) THEN Gap(t.out_offset) ELSE children[i + 1]
        pre == [prev EXCEPT !.start = TrimmedStart(prev) + Duration(prev) - t.in_offset,
                            !.dur = d]
        post == [next EXCEPT !.start = TrimmedStart(next) - t.in_offset,
                             !.dur = d]
    IN [Obj("tuple", "") EXCEPT !.children = <<pre, t, post>>]

track_with_expanded_transitions(track) ==
    [i \in DOMAIN track.children |->
        IF track.children[i].schema = "Transition"
        THEN ExpandTransition(track.children, i)
        ELSE TrimFromTransitions(track.children, i)]

-----------------------------------------------------------------------------
(* XML elements *)

Element(tag, attrib) == [tag |-> tag, attrib |-> attrib, text |-> "", children |-> <<>>]

AppendChild(e, child) == [e EXCEPT !.children = Append(@, child)]

\* str() of a float time scalar
ScalarStr(k) == ToString(k) \o ".0"

\* Element.find('./property/[@name=...]'): the position of the first match, 0 if none
FindProperty(e, name) ==
    LET hits == {i \in DOMAIN e.children :
                    e.children[i].tag = "property" /\ e.children[i].attrib.name = name}
    IN IF hits = {} THEN 0 ELSE CHOOSE i \in hits : \A j \in hits : i <= j

create_property_element(name, text) ==
    [tag |-> "property", attrib |-> [name |-> name], text |-> text, children |-> <<>>]

create_solid(color, length) ==
    [tag |-> "producer",
     attrib |-> [title |-> "color", id |-> "solid_" \o color, in |-> 0, out |-> length - 1],
     text |-> "",
     children |-> << create_property_element("length", ToString(length)),
                     create_property_element("eof", "pause"),
                     create_property_element("resource", color),
                     create_property_element("mlt_service", "color") >>]

\* A reference to a registered producer element: its namespace and its key
Ref(sub_key, id) == <<sub_key, id>>
Deref(prods, ref) == prods[ref[1]][ref[2]]

-----------------------------------------------------------------------------
(* The adapter's functions.  A function that reads or changes the module-   *)
(* level collections takes them as arguments and returns their new values.  *)

InOrder(order, ref) == \E i \in DOMAIN order : order[i] = ref

\* dict.setdefault(key, value): the value the dict holds for key afterwards
SetDefault(dict, key, value) == IF key \in DOMAIN dict THEN dict[key] ELSE value

IsFill(otio_item) == otio_item.schema \in {"Gap", "Transition"}
HasMedia(otio_item) == otio_item.schema = "Clip"

\* get_producer: the key under which the item's producer is stored
producer_id(otio_item) ==
    IF IsFill(otio_item) THEN create_solid("black", Duration(otio_item)).attrib.id
    ELSE IF HasMedia(otio_item) /\ otio_item.media.name # "" THEN otio_item.media.name
    ELSE otio_item.name

is_sequence(otio_item) ==
    HasMedia(otio_item) /\ otio_item.media.kind = "ImageSequenceReference"

\* get_producer: the resource of the item, its key if the media gives none
target_url(otio_item, id_) ==
    LET media == otio_item.media
        url == IF HasMedia(otio_item) /\ media.kind = "ExternalReference"
               THEN media.target_url
               ELSE IF is_sequence(otio_item)
               THEN media.target_url \o "%0" \o ToString(media.frame_zero_padding) \o "d"
                    \o "?begin=" \o ToString(media.start_frame)
               ELSE ""
    IN IF url = "" THEN id_ ELSE url

\* get_producer: the element made for the item before the registry is asked
producer_element(otio_item, id_) ==
    IF IsFill(otio_item) THEN create_solid("black", Duration(otio_item))
    ELSE Element("producer", [id |-> id_])

\* get_producer: a producer with no resource yet, or a black solid
first_use(producer) ==
    LET p == FindProperty(producer, "resource")
    IN p = 0 \/ producer.children[p].text = "black"

\* get_producer: the resource and the service are added to the registered element
complete_producer(producer, url, sequence) ==
    LET with_resource == IF FindProperty(producer, "resource") = 0
                         THEN AppendChild(producer, create_property_element("resource", url))
                         ELSE producer
    IN IF sequence
       THEN AppendChild(with_resource, create_property_element("mlt_service", "pixbuf"))
       ELSE with_resource

\* get_producer from the registered element on: it is completed on first use and
\* appended to the order list unless it is there already
store_producer(otio_item, sub_key, id_, producer, prods, order) ==
    LET result == IF first_use(producer)
                  THEN complete_producer(producer, target_url(otio_item, id_),
                                         is_sequence(otio_item))
                  ELSE producer
    IN [producer |-> result,
        producers |-> [prods EXCEPT ![sub_key] = Put(@, id_, result)],
        producer_order |-> IF first_use(producer) /\ ~InOrder(order, Ref(sub_key, id_))
                           THEN Append(order, Ref(sub_key, id_)) ELSE order]

lookup_producer(otio_item, sub_key, id_, prods, order) ==
    store_producer(otio_item, sub_key, id_,
                   SetDefault(prods[sub_key], id_, producer_element(otio_item, id_)),
                   prods, order)

get_producer(otio_item, video_track, prods, order) ==
    lookup_producer(otio_item, IF video_track THEN "video" ELSE "audio",
                    producer_id(otio_item), prods, order)

\* create_transition: one of the two track elements of the tractor
transition_track(item, item_b, producer) ==
    LET in_ == IF item.schema = "Gap" THEN 0 ELSE TrimmedStart(item)
        out_ == IF item.schema = "Gap" THEN Duration(item_b) - 1
                ELSE in_ + Duration(item) - 1
    IN Element("track", [producer |-> producer.attrib.id, in |-> in_, out |-> out_])

\* A faulty variant: the duration is shortened by two frames
transition_duration_short(transition) == Duration(transition) - 2

transition_duration(transition) == Duration(transition) - 1

\* create_transition: the tractor, once both producers are known
transition_tractor(trans_tuple, name, ga, gb) ==
    LET dur == transition_duration(trans_tuple.children[2])
        item_b == trans_tuple.children[3]
        trans_e == [tag |-> "transition",
                    attrib |-> [id |-> "transition_" \o name, out |-> dur],
                    text |-> "",
                    children |-> << create_property_element("a_track", "0"),
                                    create_property_element("b_track", "1"),
                                    create_property_element("factory", ""),
                                    create_property_element("mlt_service", "luma") >>]
    IN [tractor |-> [tag |-> "tractor",
                     attrib |-> [id |-> name, in |-> 0, out |-> dur],
                     text |-> "",
                     children |-> << transition_track(trans_tuple.children[1], item_b,
                                                      ga.producer),
                                     transition_track(item_b, item_b, gb.producer),
                                     trans_e >>],
        producers |-> gb.producers,
        producer_order |-> gb.producer_order]

transition_second(trans_tuple, name, ga) ==
    transition_tractor(trans_tuple, name, ga,
                       get_producer(trans_tuple.children[3], TRUE,
                                    ga.producers, ga.producer_order))

create_transition(trans_tuple, name, prods, order) ==
    transition_second(trans_tuple, name,
                      get_producer(trans_tuple.children[1], TRUE, prods, order))

create_entry_element(producer, in_, out_) ==
    Element("entry", [producer |-> producer.attrib.id, in |-> in_, out |-> out_])

\* A faulty variant: the out point is taken as exclusive
create_clip_exclusive(item, producer) ==
    LET in_ == TrimmedStart(item)
    IN create_entry_element(producer, in_, in_ + Duration(item))

create_clip(item, producer) ==
    LET in_ == TrimmedStart(item)
        out_ == in_ + Duration(item) - 1
    IN create_entry_element(producer, in_, out_)

\* A faulty variant: the length is written like an out point
create_blank_element_short(item) == Element("blank", [length |-> item.dur - 1])

create_blank_element(item) == Element("blank", [length |-> item.dur])

None == Element("None", EmptyDict)

SetAttrib(e, name, value) == [e EXCEPT !.attrib = Put(@, name, value)]

\* apply_timewarp, FreezeFrame: the copy of the producer that holds one frame
freeze_producer(item, orig_producer_e) ==
    LET frame == ToString(item.start)
        id_ == orig_producer_e.attrib.id \o "_freeze" \o frame
    IN AppendChild(AppendChild(SetAttrib(orig_producer_e, "id", id_),
                               create_property_element("mlt_service", "hold")),
                   create_property_element("frame", frame))

\* apply_timewarp, LinearTimeWarp: the copy of the producer played at another speed
timewarp_producer(item_e, effect, orig_producer_e) ==
    LET scalar == ScalarStr(effect.time_scalar)
        r == FindProperty(orig_producer_e, "resource")
        id_ == scalar \o ":" \o item_e.attrib.producer
    IN AppendChild([SetAttrib(orig_producer_e, "id", id_)
                        EXCEPT !.children[r].text = scalar \o ":" \o @],
                   create_property_element("mlt_service", "timewarp"))

\* A faulty variant: the copy is registered again when its id is taken
swap_producer_again(item_e, producer_e, prods, order) ==
    [item_e |-> SetAttrib(item_e, "producer", producer_e.attrib.id),
     producers |-> [prods EXCEPT !.video = Put(@, producer_e.attrib.id, producer_e)],
     producer_order |-> Append(order, Ref("video", producer_e.attrib.id))]

\* apply_timewarp: the copy is registered unless its id is taken, the element is
\* pointed at that id
swap_producer(item_e, producer_e, prods, order) ==
    LET id_ == producer_e.attrib.id
        new == id_ \notin DOMAIN prods.video
    IN [item_e |-> SetAttrib(item_e, "producer", id_),
        producers |-> IF new THEN [prods EXCEPT !.video = Put(@, id_, producer_e)]
                      ELSE prods,
        producer_order |-> IF new THEN Append(order, Ref("video", id_)) ELSE order]

effect_producer(item, item_e, effect, orig_producer_e) ==
    IF effect.effect_name = "FreezeFrame"
    THEN freeze_producer(item, orig_producer_e)
    ELSE timewarp_producer(item_e, effect, orig_producer_e)

\* A faulty variant: the effect is applied to the producer itself, not to a copy
timewarp_in_place(item, item_e, effect, g) ==
    [swap_producer(item_e, effect_producer(item, item_e, effect, g.producer),
                   g.producers, g.producer_order)
        EXCEPT !.producers.video[g.producer.attrib.id] =
                    effect_producer(item, item_e, effect, g.producer)]

timewarp_copy(item, item_e, effect, g) ==
    swap_producer(item_e, effect_producer(item, item_e, effect, g.producer),
                  g.producers, g.producer_order)

apply_timewarp(item, item_e, effect, prods, order) ==
    IF item_e = None
    THEN [item_e |-> item_e, producers |-> prods, producer_order |-> order]
    ELSE timewarp_copy(item, item_e, effect, get_producer(item, TRUE, prods, order))

create_background_track(trks, parent, prods, order, pls) ==
    LET length == MaxSeq([i \in DOMAIN trks |-> Duration(trks[i])])
        bg_e == create_solid("black", length)
        id_ == bg_e.attrib.id
        producer_e == IF id_ \in DOMAIN prods.video THEN prods.video[id_] ELSE bg_e
        playlist_e == AppendChild(Element("playlist", [id |-> "background"]),
                                  create_entry_element(bg_e, 0, length - 1))
    IN [producers |-> [prods EXCEPT !.video = Put(@, id_, producer_e)],
        producer_order |-> Append(order, Ref("video", id_)),
        playlists |-> Append(pls, playlist_e),
        parent |-> AppendChild(parent,
                               Element("track", [producer |-> playlist_e.attrib.id]))]

\* assemble_track up to its loop: the playlist, the reference to it in the parent
assemble_track(track, track_index, parent, pls) ==
    LET playlist_e == Element("playlist",
                              [id |-> IF track.name # "" THEN track.name
                                      ELSE "playlist" \o ToString(track_index)])
        element_type == IF parent.tag = "playlist" THEN "entry" ELSE "track"
    IN [playlists |-> Append(pls, playlist_e),
        parent |-> AppendChild(parent,
                               Element(element_type, [producer |-> playlist_e.attrib.id])),
        frame |-> [items |-> track_with_expanded_transitions(track),
                   i |-> 1,
                   playlist |-> Len(pls) + 1,
                   is_audio_track |-> track.schema = "Track" /\ track.kind = "Audio",
                   track_index |-> track_index]]

assemble_timeline(rt) ==
    Append(rt, AppendChild(Element("tractor", [id |-> "tractor0"]),
                           Element("multitrack", [id |-> "multitrack0"])))

create_profile_element == Element("profile", [decsription |-> "automatic"])

RECURSIVE InsertAll(_, _, _)
InsertAll(seq, index, elements) ==
    IF elements = <<>> THEN seq
    ELSE InsertAll(Insert(seq, index, Head(elements)), index, Tail(elements))

\* The end of write_to_string: the collected elements are put under the root
emit_document(rt, prods, order, trans, pls, profile_e) ==
    LET with_producers == InsertAll(rt, 0, [i \in DOMAIN order |-> Deref(prods, order[i])])
        with_transitions == InsertAll(with_producers, -1, trans)
        with_playlists == InsertAll(with_transitions, -1, pls)
    IN Insert(with_playlists, 0, profile_e)

-----------------------------------------------------------------------------
(* The inputs write_to_string is called with *)

RefU == MediaReference("ExternalReference", "", "u.mov")
RefM == MediaReference("ExternalReference", "M", "m.mov")
RefS == MediaReference("ImageSequenceReference", "", "seq.")

ClipA(s) == Clip("A", RefU, s, ClipDur)
ClipB == Clip("B", RefU, MaxStart, ClipDur + 1)
ClipAM == Clip("A", RefM, 0, ClipDur)
ClipBM == Clip("B", RefM, MaxStart, ClipDur)
ClipN == Clip("N", NoMedia, 0, ClipDur)
ClipS == Clip("S", RefS, 0, ClipDur)

Warp(clip, k) == WithEffects(clip, <<LinearTimeWarp(k)>>)

SingleClip == {<<c>> : c \in {ClipA(s) : s \in Starts} \cup {ClipN, ClipS}}

SharedMedia == { <<ClipA(0), ClipB>>, <<ClipAM, ClipBM>>, <<ClipA(0), ClipA(MaxStart)>> }

Warped ==
    {<<ClipAM, Warp(ClipBM, k)>> : k \in Scalars}
    \cup { <<Warp(ClipAM, 2), Warp(ClipBM, 2), Warp(ClipAM, MaxScalar)>>,
           <<WithEffects(ClipA(0), <<LinearTimeWarp(2), LinearTimeWarp(MaxScalar)>>)>>,
           <<WithEffects(ClipAM, <<FreezeFrame>>), ClipBM>>,
           <<WithEffects(ClipA(0), <<OtherEffect, LinearTimeWarp(2)>>)>> }

Dissolves ==
    {<<ClipA(0), Transition(i, o), ClipB>> :
        <<i, o>> \in (Offsets \X {MaxOffset}) \cup {<<MaxOffset, 0>>, <<1, 1>>}}

EdgeTransitions ==
    { <<Transition(MaxOffset, 0), ClipB>>,
      <<Transition(0, MaxOffset), ClipB>>,
      <<ClipA(0), Transition(0, MaxOffset)>>,
      <<Gap(ClipDur), Transition(1, 1), ClipA(0)>>,
      <<ClipA(0), Transition(1, 1), ClipB, Transition(1, 0), ClipA(MaxStart)>> }

Gaps == { <<ClipA(0), Gap(MaxOffset + 1)>>, <<Gap(ClipDur)>> }

Nested == { <<ClipA(0), Stack("", <<ClipB>>)>>,
            <<Stack("inner", <<ClipAM, Gap(1)>>), ClipBM>> }

VideoTracks == SingleClip \cup SharedMedia \cup Warped \cup Dissolves
               \cup EdgeTransitions \cup Gaps \cup Nested

Video(name, children) == Track(name, "Video", children)
Audio(name, children) == Track(name, "Audio", children)

Timelines ==
    {Timeline(<<Video("", t)>>) : t \in VideoTracks}
    \cup { Timeline(<<Video("V", <<ClipA(0)>>), Video("V", <<ClipB>>)>>),
           Timeline(<<Video("background", <<ClipAM>>)>>),
           Timeline(<<Video("", <<ClipAM>>), Audio("", <<ClipBM>>)>>),
           Timeline(<<Video("", <<ClipAM>>), Audio("", <<ClipN>>)>>),
           Timeline(<<Audio("", <<ClipN>>)>>) }

Other == Obj("SerializableCollection", "")

Inputs == Timelines
          \cup { Video("", <<ClipA(0)>>), Stack("", <<Video("", <<ClipB>>)>>), ClipAM, Other }

ValidInput(o) == o.schema \in {"Timeline", "Track", "Stack", "Clip"}

\* The tracks write_to_string hands to assemble_timeline
TracksOf(input_otio) ==
    CASE input_otio.schema \in {"Timeline", "Stack"} -> input_otio.children
      [] input_otio.schema = "Track" -> <<input_otio>>
      [] input_otio.schema = "Clip" -> <<Track("", "Video", <<input_otio>>)>>

-----------------------------------------------------------------------------
(* The state machine *)

NoInput == Obj("None", "")
NoPending == [item |-> NoInput, effects |-> <<>>]

\* The number of the call in progress (or of the next call)
Call == Len(hist.returned) + 1

Top == frames[Len(frames)]
Item == Top.items[Top.i]
Advanced == [frames EXCEPT ![Len(frames)].i = @ + 1]
AtItem(schema) == pc = "items" /\ Top.i <= Len(Top.items) /\ Item.schema = schema

IsTimeEffect(effect) == effect.time_effect
TimeEffects(item) == SelectSeq(item.effects, IsTimeEffect)

Init ==
    /\ root = <<>>
    /\ producers = [audio |-> EmptyDict, video |-> EmptyDict]
    /\ producer_order = <<>>
    /\ playlists = <<>>
    /\ transitions = <<>>
    /\ pc = "idle"
    /\ input = NoInput
    /\ tracks = [children |-> <<>>, index |-> 0]
    /\ frames = <<>>
    /\ pending = NoPending
    /\ hist = [returned |-> <<>>, resolved |-> {}, entries |-> {},
               tuples |-> <<>>, warps |-> <<>>]

\* write_to_string up to the loop of assemble_timeline
WriteToString(input_otio) ==
    /\ pc = "idle"
    /\ Len(hist.returned) < MaxCalls
    /\ ValidInput(input_otio)
    /\ LET trks == TracksOf(input_otio)
           rt == assemble_timeline(root)
           n == Len(rt)
           bg == create_background_track(trks, rt[n].children[1],
                                         producers, producer_order, playlists)
       IN /\ root' = [rt EXCEPT ![n].children[1] = bg.parent]
          /\ producers' = bg.producers
          /\ producer_order' = bg.producer_order
          /\ playlists' = bg.playlists
          /\ tracks' = [children |-> trks, index |-> 0]
    /\ input' = input_otio
    /\ pc' = "tracks"
    /\ UNCHANGED <<transitions, frames, pending, hist>>

\* A faulty variant: the input is rejected only after the root tractor was added
RaiseValueError_late(input_otio) ==
    /\ pc = "idle"
    /\ Len(hist.returned) < MaxCalls
    /\ ~ValidInput(input_otio)
    /\ root' = assemble_timeline(root)
    /\ hist' = [hist EXCEPT !.returned =
                    Append(@, [input |-> input_otio, ok |-> FALSE, doc |-> <<>>])]
    /\ UNCHANGED <<producers, producer_order, playlists, transitions,
                   pc, input, tracks, frames, pending>>

\* write_to_string on an input of no accepted type: ValueError
RaiseValueError(input_otio) ==
    /\ pc = "idle"
    /\ Len(hist.returned) < MaxCalls
    /\ ~ValidInput(input_otio)
    /\ hist' = [hist EXCEPT !.returned =
                    Append(@, [input |-> input_otio, ok |-> FALSE, doc |-> <<>>])]
    /\ UNCHANGED <<root, producers, producer_order, playlists, transitions,
                   pc, input, tracks, frames, pending>>

\* assemble_timeline calls assemble_track for the next track
AssembleTrack ==
    /\ pc = "tracks"
    /\ tracks.index < Len(tracks.children)
    /\ LET n == Len(root)
           a == assemble_track(tracks.children[tracks.index + 1], tracks.index,
                               root[n].children[1], playlists)
       IN /\ root' = [root EXCEPT ![n].children[1] = a.parent]
          /\ playlists' = a.playlists
          /\ frames' = <<a.frame>>
    /\ tracks' = [tracks EXCEPT !.index = @ + 1]
    /\ pc' = "items"
    /\ UNCHANGED <<producers, producer_order, transitions, input, pending, hist>>

AssembleClip ==
    /\ AtItem("Clip")
    /\ LET g == get_producer(Item, TRUE, producers, producer_order)
           id_ == g.producer.attrib.id
           skip == Top.is_audio_track /\ id_ \in DOMAIN g.producers.video
           item_e == create_clip(Item, g.producer)
           effects == TimeEffects(Item)
           resolved == [call |-> Call, item |-> Item, id |-> id_]
       IN /\ producers' = g.producers
          /\ producer_order' = g.producer_order
          /\ IF skip
             THEN /\ UNCHANGED <<playlists, pending, pc>>
                  /\ hist' = [hist EXCEPT !.resolved = @ \cup {resolved}]
             ELSE /\ playlists' = [playlists EXCEPT ![Top.playlist] = AppendChild(@, item_e)]
                  /\ pending' = [item |-> Item, effects |-> effects]
                  /\ pc' = IF effects = <<>> THEN "items" ELSE "effects"
                  /\ hist' = [hist EXCEPT
                        !.resolved = @ \cup {resolved},
                        !.entries = @ \cup {[call |-> Call, playlist |-> Top.playlist,
                             pos |-> Len(playlists[Top.playlist].children) + 1,
                             item |-> Item]}]
    /\ frames' = Advanced
    /\ UNCHANGED <<root, transitions, input, tracks>>

AssembleGap ==
    /\ AtItem("Gap")
    /\ playlists' = [playlists EXCEPT ![Top.playlist] =
                        AppendChild(@, create_blank_element(Item))]
    /\ frames' = Advanced
    /\ UNCHANGED <<root, producers, producer_order, transitions,
                   pc, input, tracks, pending, hist>>

AssembleTransition ==
    /\ AtItem("tuple")
    /\ LET name == "transition_tractor" \o ToString(Len(transitions))
           c == create_transition(Item, name, producers, producer_order)
           transition_e == c.tractor
           legs == {l \in {1, 3} : Item.children[l].schema = "Clip"}
       IN /\ producers' = c.producers
          /\ producer_order' = c.producer_order
          /\ transitions' = Append(transitions, transition_e)
          /\ playlists' = [playlists EXCEPT ![Top.playlist] =
                AppendChild(@, Element("entry", [producer |-> transition_e.attrib.id,
                                                 in |-> transition_e.attrib.in,
                                                 out |-> transition_e.attrib.out]))]
          /\ hist' = [hist EXCEPT
                !.tuples = Append(@, Item),
                !.resolved = @ \cup
                    {[call |-> Call, item |-> Item.children[l],
                      id |-> transition_e.children[(l + 1) \div 2].attrib.producer] : l \in legs}]
    /\ frames' = Advanced
    /\ UNCHANGED <<root, pc, input, tracks, pending>>

\* a nested Stack: assemble_track calls itself with the playlist as parent
AssembleStack ==
    /\ AtItem("Stack")
    /\ LET a == assemble_track(Item, Top.track_index, playlists[Top.playlist], playlists)
       IN /\ playlists' = [a.playlists EXCEPT ![Top.playlist] = a.parent]
          /\ frames' = Append(Advanced, a.frame)
    /\ UNCHANGED <<root, producers, producer_order, transitions,
                   pc, input, tracks, pending, hist>>

\* the next time effect of the item just emitted
ApplyTimewarp ==
    /\ pc = "effects"
    /\ LET effect == Head(pending.effects)
           pl == frames[Len(frames)].playlist
           pos == Len(playlists[pl].children)
           item_e == playlists[pl].children[pos]
           a == apply_timewarp(pending.item, item_e, effect, producers, producer_order)
       IN /\ producers' = a.producers
          /\ producer_order' = a.producer_order
          /\ playlists' = [playlists EXCEPT ![pl].children[pos] = a.item_e]
          /\ hist' = [hist EXCEPT !.warps = Append(@,
                [call |-> Call, playlist |-> pl, pos |-> pos, effect |-> effect,
                 base |-> item_e.attrib.producer,
                 id |-> a.item_e.attrib.producer,
                 appended |-> Len(a.producer_order) - Len(producer_order)])]
    /\ pending' = [pending EXCEPT !.effects = Tail(@)]
    /\ pc' = IF Tail(pending.effects) = <<>> THEN "items" ELSE "effects"
    /\ UNCHANGED <<root, transitions, input, tracks, frames>>

\* the loop of assemble_track is over: back to the caller
EndTrack ==
    /\ pc = "items"
    /\ Top.i > Len(Top.items)
    /\ frames' = SubSeq(frames, 1, Len(frames) - 1)
    /\ pc' = IF Len(frames) = 1 THEN "tracks" ELSE "items"
    /\ UNCHANGED <<root, producers, producer_order, playlists, transitions,
                   input, tracks, pending, hist>>

\* all tracks are assembled: the document is put together and returned
Emit ==
    /\ pc = "tracks"
    /\ tracks.index = Len(tracks.children)
    /\ root' = emit_document(root, producers, producer_order, transitions, playlists,
                             create_profile_element)
    /\ hist' = [hist EXCEPT !.returned =
                    Append(@, [input |-> input, ok |-> TRUE, doc |-> root'])]
    /\ pc' = "idle"
    /\ UNCHANGED <<producers, producer_order, playlists, transitions,
                   input, tracks, frames, pending>>

Next ==
    \/ \E input_otio \in Inputs : WriteToString(input_otio)
    \/ \E input_otio \in Inputs : RaiseValueError(input_otio)
    \/ AssembleTrack
    \/ AssembleClip
    \/ AssembleGap
    \/ AssembleTransition
    \/ AssembleStack
    \/ ApplyTimewarp
    \/ EndTrack
    \/ Emit

Spec == Init /\ [][Next]_vars

-----------------------------------------------------------------------------
(* Reading the returned documents *)

Returned == {r \in Range(hist.returned) : r.ok}

IsRootTractor(e) ==
    e.tag = "tractor" /\ e.children # <<>> /\ e.children[1].tag = "multitrack"

\* The block of the document an element of the root belongs to
Block(e) ==
    CASE e.tag = "profile" -> 0
      [] e.tag = "producer" -> 1
      [] e.tag = "tractor" /\ ~IsRootTractor(e) -> 2
      [] e.tag = "playlist" -> 3
      [] OTHER -> 4

Resource(e) == LET p == FindProperty(e, "resource")
               IN IF p = 0 THEN "" ELSE e.children[p].text

\* The track and entry elements under an element of the root
References(e) ==
    LET own == {e.children[i] : i \in DOMAIN e.children}
        inner == UNION {{c.children[i] : i \in DOMAIN c.children} : c \in own}
    IN {c \in own \cup inner : c.tag \in {"track", "entry"}}

\* The positions of the producer nodes with a given id in a document
ProducerNodes(doc, id) ==
    {i \in DOMAIN doc : doc[i].tag = "producer" /\ doc[i].attrib.id = id}

-----------------------------------------------------------------------------
(* C1: the document write_to_string returns depends only on its input:     *)
(* two calls with the same input return the same document, whatever was    *)
(* converted before.                                                       *)
C1_SameInputSameDocument ==
    \A r1, r2 \in Returned : r1.input = r2.input => r1.doc = r2.doc

(* C2: within one conversion, Clips that share a media reference resolve   *)
(* to one Source, and the document holds exactly one producer node for     *)
(* that media.                                                             *)
C2_SharedMediaOneSource ==
    /\ \A r1, r2 \in hist.resolved :
          (/\ r1.call = r2.call
           /\ r1.item.media.kind # "MissingReference"
           /\ r1.item.media = r2.item.media) => r1.id = r2.id
    /\ \A k \in DOMAIN hist.returned : \A r \in hist.resolved :
          (/\ r.call = k
           /\ hist.returned[k].ok
           /\ r.item.media.kind = "ExternalReference")
          => Cardinality({i \in DOMAIN hist.returned[k].doc :
                            /\ hist.returned[k].doc[i].tag = "producer"
                            /\ Resource(hist.returned[k].doc[i]) = r.item.media.target_url}) = 1

(* C3: the children of the root come in the block order profile,           *)
(* producers, transition tractors, playlists, root tractor, and the root   *)
(* tractor is the last node.                                               *)
C3_BlockOrder ==
    \A r \in Returned :
        /\ \A i, j \in DOMAIN r.doc : i < j => Block(r.doc[i]) <= Block(r.doc[j])
        /\ IsRootTractor(r.doc[Len(r.doc)])

(* C4: the producer nodes of the document are in creation order: a Source  *)
(* appended to the order list before another one precedes it in the        *)
(* document.                                                               *)
C4_ProducersInCreationOrder ==
    (pc = "idle" /\ hist.returned # <<>> /\ hist.returned[Len(hist.returned)].ok) =>
        LET doc == hist.returned[Len(hist.returned)].doc
        IN \A i, j \in DOMAIN producer_order :
              (i < j /\ producer_order[i] # producer_order[j]) =>
                 \E m \in ProducerNodes(doc, producer_order[i][2]) :
                    \A n \in ProducerNodes(doc, producer_order[j][2]) : m < n

(* C5: every id a track or entry names in its producer attribute is        *)
(* declared by a node that comes earlier in the document than the element  *)
(* naming it.                                                              *)
C5_DeclaredBeforeUse ==
    \A r \in Returned : \A p \in DOMAIN r.doc : \A e \in References(r.doc[p]) :
        \E q \in DOMAIN r.doc :
            /\ q < p
            /\ "id" \in DOMAIN r.doc[q].attrib
            /\ r.doc[q].attrib.id = e.attrib.producer

-----------------------------------------------------------------------------
(* Reading the playlists and tractors under construction *)

EntryOf(e) == playlists[e.playlist].children[e.pos]

InOffset(k) == hist.tuples[k].children[2].in_offset
OutOffset(k) == hist.tuples[k].children[2].out_offset
IsDissolve(k) == InOffset(k) # 0 /\ OutOffset(k) # 0
IsFadeIn(k) == InOffset(k) # 0 /\ OutOffset(k) = 0
Slot(k, n) == transitions[k].children[n]
Extent(e) == e.attrib.out - e.attrib.in
IsSolid(e) == "title" \in DOMAIN e.attrib /\ e.attrib.title = "color"

LinearTimeWarps ==
    {i \in DOMAIN hist.warps : hist.warps[i].effect.effect_name = "LinearTimeWarp"}
SamePair(i, j) ==
    /\ hist.warps[i].base = hist.warps[j].base
    /\ hist.warps[i].effect.time_scalar = hist.warps[j].effect.time_scalar

(* C6: the entry of a Clip whose trimmed range, as assemble_track receives *)
(* it, starts at S and lasts D has in = S and out = S + D - 1.             *)
C6_EntryInOut ==
    \A e \in hist.entries :
        /\ EntryOf(e).tag = "entry"
        /\ EntryOf(e).attrib.in = e.item.start
        /\ EntryOf(e).attrib.out = e.item.start + e.item.dur - 1

C6_Witness ==
    \E e \in hist.entries :
        /\ e.item.start > 0
        /\ e.item.dur > 1
        /\ EntryOf(e).attrib.out = e.item.start + e.item.dur - 1

(* C7 as stated: the tractor of a dissolve with offsets I and O has in = 0 *)
(* and out = I + O - 2, and both of its tracks have out - in = I + O - 2.  *)
C7_DissolveExtentMinusTwo ==
    \A k \in DOMAIN hist.tuples : IsDissolve(k) =>
        /\ transitions[k].attrib.in = 0
        /\ transitions[k].attrib.out = InOffset(k) + OutOffset(k) - 2
        /\ \A n \in {1, 2} : Extent(Slot(k, n)) = InOffset(k) + OutOffset(k) - 2

(* C7 amended: the tractor of a dissolve with offsets I and O has in = 0   *)
(* and out = I + O - 1, and both of its tracks have out - in = I + O - 1.  *)
C7_DissolveExtent ==
    \A k \in DOMAIN hist.tuples : IsDissolve(k) =>
        /\ transitions[k].attrib.in = 0
        /\ transitions[k].attrib.out = InOffset(k) + OutOffset(k) - 1
        /\ \A n \in {1, 2} : Extent(Slot(k, n)) = InOffset(k) + OutOffset(k) - 1

C7_Witness ==
    \E k \in DOMAIN hist.tuples :
        /\ IsDissolve(k)
        /\ InOffset(k) # OutOffset(k)
        /\ hist.tuples[k].children[1].schema = "Clip"
        /\ hist.tuples[k].children[3].schema = "Clip"
        /\ transitions[k].attrib.out = InOffset(k) + OutOffset(k) - 1

(* C8: the tractor of a fade-in (in-offset nonzero, out-offset zero) has a *)
(* fill Source of length in-offset in its first track, and the Source of   *)
(* the item after the Transition in its second track.                      *)
C8_FadeInSlots ==
    \A k \in DOMAIN hist.tuples : IsFadeIn(k) =>
        /\ Slot(k, 1).attrib.producer \in DOMAIN producers.video
        /\ IsSolid(producers.video[Slot(k, 1).attrib.producer])
        /\ producers.video[Slot(k, 1).attrib.producer].attrib.out = InOffset(k) - 1
        /\ Slot(k, 2).attrib.producer = producer_id(hist.tuples[k].children[3])

(* C9: a LinearTimeWarp applied to an entry leaves every registered Source *)
(* as it was, the original included, leaves every other entry and every    *)
(* tractor as it was, and points the entry at a registered Source with     *)
(* another id than the one it referenced.                                  *)
C9_TimewarpLeavesOriginal ==
    [][ (pc = "effects" /\ Head(pending.effects).effect_name = "LinearTimeWarp") =>
          /\ \A id \in DOMAIN producers.video :
                /\ id \in DOMAIN producers'.video
                /\ producers'.video[id] = producers.video[id]
          /\ \A q \in DOMAIN playlists : \A c \in DOMAIN playlists[q].children :
                (q # Top.playlist \/ c # Len(playlists[q].children))
                    => playlists'[q].children[c] = playlists[q].children[c]
          /\ transitions' = transitions
          /\ Len(playlists'[Top.playlist].children) = Len(playlists[Top.playlist].children)
          /\ playlists'[Top.playlist].children[Len(playlists[Top.playlist].children)].attrib.producer
                \in DOMAIN producers'.video
                    \ {playlists[Top.playlist].children[Len(playlists[Top.playlist].children)].attrib.producer,
                       producer_id(pending.item)}
      ]_vars

C9_Witness ==
    \E i \in LinearTimeWarps : \E c \in 1..(hist.warps[i].pos - 1) :
        /\ playlists[hist.warps[i].playlist].children[c].tag = "entry"
        /\ playlists[hist.warps[i].playlist].children[c].attrib.producer = hist.warps[i].base
        /\ playlists[hist.warps[i].playlist].children[hist.warps[i].pos].attrib.producer
              = hist.warps[i].id
        /\ hist.warps[i].id # hist.warps[i].base
        /\ hist.warps[i].base \in DOMAIN producers.video

(* C10: there is one derived Source for each pair of a time-warp scalar    *)
(* and a base Source id: the first LinearTimeWarp of a pair registers it   *)
(* and appends it to the order list once, a later one of the same pair     *)
(* points its entry at that Source and appends nothing, and one with       *)
(* another scalar on the same base gets another id.                        *)
C10_OneDerivedSourceEach ==
    \A i \in LinearTimeWarps :
        /\ hist.warps[i].id \in DOMAIN producers.video
        /\ Cardinality({n \in DOMAIN producer_order :
                            producer_order[n] = Ref("video", hist.warps[i].id)}) = 1
        /\ hist.warps[i].appended =
              IF \E j \in LinearTimeWarps : j < i /\ SamePair(i, j) THEN 0 ELSE 1
        /\ \A j \in LinearTimeWarps :
              hist.warps[i].base = hist.warps[j].base
                 => (hist.warps[i].id = hist.warps[j].id <=> SamePair(i, j))

C10_Witness ==
    \E i, j, k \in LinearTimeWarps :
        /\ i < j /\ j < k
        /\ hist.warps[i].call = hist.warps[j].call
        /\ hist.warps[j].call = hist.warps[k].call
        /\ SamePair(i, j)
        /\ hist.warps[j].appended = 0
        /\ hist.warps[k].base = hist.warps[i].base
        /\ hist.warps[k].id # hist.warps[i].id
        /\ hist.warps[k].appended = 1

-----------------------------------------------------------------------------
(* Reading the input of the call under way *)

\* The Clips of a track, those of a Stack nested in it included
ClipsOf(track) ==
    LET own == Range(track.children)
        inner == UNION {Range(c.children) : c \in own}
    IN {c \in own \cup inner : c.schema = "Clip"}

\* Some video track of the input has a Clip that resolves to this key
VideoCarries(key) ==
    \E t \in Range(TracksOf(input)) :
        t.kind = "Video" /\ \E c \in ClipsOf(t) : producer_id(c) = key

\* The loop of assemble_track over the items of a top-level track is over
TrackDone == pc = "items" /\ Len(frames) = 1 /\ Top.i > Len(Top.items)

EntriesFor(playlist, key) ==
    {n \in DOMAIN playlist.children :
        /\ playlist.children[n].tag = "entry"
        /\ playlist.children[n].attrib.producer = key}

(* C11: when an audio track is assembled, its playlist has no entry for a  *)
(* Clip whose media key some video track of the input resolves to, and one *)
(* entry for each Clip whose media key no video track resolves to.         *)
C11_AudioElision ==
    (TrackDone /\ Top.is_audio_track) =>
        \A i \in DOMAIN Top.items : Top.items[i].schema = "Clip" =>
            Cardinality(EntriesFor(playlists[Top.playlist], producer_id(Top.items[i])))
              = IF VideoCarries(producer_id(Top.items[i])) THEN 0
                ELSE Cardinality({j \in DOMAIN Top.items :
                        /\ Top.items[j].schema = "Clip"
                        /\ producer_id(Top.items[j]) = producer_id(Top.items[i])})

(* C12: a call of write_to_string with an input that is not a Timeline,    *)
(* Track, Stack or Clip ends with an error and returns no document, and    *)
(* leaves root, the producer registry, the order list, the playlists and   *)
(* the transitions as they were; an input of an accepted type is never     *)
(* rejected.                                                               *)
C12_RejectedInputChangesNothing ==
    [][ /\ (pc = "idle" /\ Len(hist.returned') = Len(hist.returned) + 1) =>
              /\ ~ValidInput(hist.returned'[Len(hist.returned')].input)
              /\ ~hist.returned'[Len(hist.returned')].ok
              /\ hist.returned'[Len(hist.returned')].doc = <<>>
              /\ UNCHANGED <<root, producers, producer_order, playlists, transitions>>
        /\ \A i \in DOMAIN hist.returned' :
              hist.returned'[i].ok <=> ValidInput(hist.returned'[i].input)
      ]_vars

C12_Witness ==
    /\ Len(hist.returned) = 2
    /\ hist.returned[1].ok
    /\ ~hist.returned[2].ok
    /\ ~ValidInput(hist.returned[2].input)
    /\ root = hist.returned[1].doc
    /\ playlists # <<>>

-----------------------------------------------------------------------------
(* The fills get_producer hands to create_transition *)

\* The leg of the k-th transition that goes into track n of its tractor
Leg(k, n) == hist.tuples[k].children[2 * n - 1]

LengthOf(e) == LET p == FindProperty(e, "length")
               IN IF p = 0 THEN "" ELSE e.children[p].text

(* C13: the Source get_producer returns for a Gap of duration d has in = 0, *)
(* out = d - 1 and length d, whatever fills were made before it.            *)
C13_FillRange ==
    \A k \in DOMAIN hist.tuples : \A n \in {1, 2} : Leg(k, n).schema = "Gap" =>
        /\ Slot(k, n).attrib.producer \in DOMAIN producers.video
        /\ IsSolid(producers.video[Slot(k, n).attrib.producer])
        /\ producers.video[Slot(k, n).attrib.producer].attrib.in = 0
        /\ producers.video[Slot(k, n).attrib.producer].attrib.out = Duration(Leg(k, n)) - 1
        /\ LengthOf(producers.video[Slot(k, n).attrib.producer])
              = ToString(Duration(Leg(k, n)))

(* C14: in every returned document no two nodes among the producers, the   *)
(* playlists, the transition tractors and the root tractor have the same   *)
(* id.                                                                     *)
C14_UniqueIds ==
    \A r \in Returned : \A i, j \in DOMAIN r.doc :
        (/\ i < j
         /\ r.doc[i].tag \in {"producer", "playlist", "tractor"}
         /\ r.doc[j].tag \in {"producer", "playlist", "tractor"})
        => r.doc[i].attrib.id # r.doc[j].attrib.id

(* C15: a LinearTimeWarp step whose entry references a Source with id b    *)
(* and resource r leaves the entry referencing a Source with id scalar:b   *)
(* and resource scalar:r, also when b is itself the Source an earlier      *)
(* effect of the item made.                                                *)
C15_ChainedTimewarp ==
    \A i \in LinearTimeWarps :
        /\ hist.warps[i].base \in DOMAIN producers.video
        /\ hist.warps[i].id \in DOMAIN producers.video
        /\ hist.warps[i].id =
              ScalarStr(hist.warps[i].effect.time_scalar) \o ":" \o hist.warps[i].base
        /\ Resource(producers.video[hist.warps[i].id]) =
              ScalarStr(hist.warps[i].effect.time_scalar) \o ":"
                 \o Resource(producers.video[hist.warps[i].base])

(* C16: the order list of the Sources only grows at its end, and it never  *)
(* holds the same Source twice.                                            *)
C16_OrderAppendOnly ==
    [][ /\ Len(producer_order') >= Len(producer_order)
        /\ SubSeq(producer_order', 1, Len(producer_order)) = producer_order
        /\ \A i, j \in DOMAIN producer_order' :
              i < j => producer_order'[i] # producer_order'[j]
      ]_vars

-----------------------------------------------------------------------------
(* The playlist of a track against the track *)

\* The track whose items assemble_track has just gone through
AssembledTrack == tracks.children[tracks.index]

\* A track of Clips, Gaps and Transitions, no two Transitions side by side
IsPlainTrack(track) ==
    /\ \A i \in DOMAIN track.children :
          track.children[i].schema \in {"Clip", "Gap", "Transition"}
    /\ \A i \in DOMAIN track.children :
          ~(IsTransition(track.children, i) /\ IsTransition(track.children, i + 1))

\* The sum of the durations of the Clips and Gaps of a track
ItemsLength(track) ==
    SumSeq([i \in DOMAIN track.children |->
              IF track.children[i].schema = "Transition" THEN 0
              ELSE track.children[i].dur])

\* What a Transition at the start or at the end of a track reaches over the track
EdgeLength(track) ==
    (IF IsTransition(track.children, 1) THEN track.children[1].in_offset ELSE 0)
    + (IF IsTransition(track.children, Len(track.children))
       THEN track.children[Len(track.children)].out_offset ELSE 0)

FramesOf(e) == IF e.tag = "blank" THEN e.attrib.length
               ELSE e.attrib.out - e.attrib.in + 1

PlaylistLength(playlist) ==
    SumSeq([n \in DOMAIN playlist.children |-> FramesOf(playlist.children[n])])

IsTractorId(id) == \E k \in DOMAIN transitions : transitions[k].attrib.id = id

\* The child of a playlist is the element assemble_track makes for the item
ChildOf(e, item) ==
    CASE item.schema = "Gap" -> e.tag = "blank"
      [] item.schema = "tuple" -> e.tag = "entry" /\ IsTractorId(e.attrib.producer)
      [] OTHER -> /\ e.tag = "entry"
                  /\ e.attrib.producer \in DOMAIN producers.video
                  /\ ~IsTractorId(e.attrib.producer)

OneChildPerItem ==
    /\ Len(playlists[Top.playlist].children) = Len(Top.items)
    /\ \A n \in DOMAIN Top.items :
          ChildOf(playlists[Top.playlist].children[n], Top.items[n])

AtPlainVideoTrack ==
    TrackDone /\ ~Top.is_audio_track /\ IsPlainTrack(AssembledTrack)

(* C17 as stated: the playlist of a video track of Clips, Gaps and          *)
(* Transitions has one child per item of the expanded track, in order, and  *)
(* its frames, entries and blanks together, add up to the sum of the        *)
(* durations of the track's Clips and Gaps.                                 *)
C17_PlaylistLengthIsItemsLength ==
    AtPlainVideoTrack =>
        /\ OneChildPerItem
        /\ PlaylistLength(playlists[Top.playlist]) = ItemsLength(AssembledTrack)

(* C17 amended: the playlist of a video track of Clips, Gaps and            *)
(* Transitions has one child per item of the expanded track, in order, and  *)
(* its frames add up to the sum of the durations of the track's Clips and   *)
(* Gaps plus the in-offset of a Transition that starts the track and the    *)
(* out-offset of a Transition that ends it.                                 *)
C17_PlaylistLength ==
    AtPlainVideoTrack =>
        /\ OneChildPerItem
        /\ PlaylistLength(playlists[Top.playlist])
              = ItemsLength(AssembledTrack) + EdgeLength(AssembledTrack)

C17_Witness ==
    /\ AtPlainVideoTrack
    /\ IsTransition(AssembledTrack.children, 1)
    /\ AssembledTrack.children[1].in_offset > 0
    /\ Len(AssembledTrack.children) > 1
    /\ PlaylistLength(playlists[Top.playlist])
          = ItemsLength(AssembledTrack) + AssembledTrack.children[1].in_offset

====
